---- MODULE Spec2Model ----
(***************************************************************************)
(* Model of the numerical toolbox simulator: the Pid controller            *)
(* (simulator/controllers/Pid.py) over the numeric types it is generic     *)
(* in, Python floats and QNumber fixed-point values                        *)
(* (simulator/math/QNumber.py), the QNumber type on its own, the space     *)
(* vector modulation (simulator/controllers/SpaceVectorModulation.py)      *)
(* and the Clarke and Park transforms with their trigonometric functions   *)
(* (simulator/controllers/TransformsClarkeAndPark.py).                     *)
(*                                                                         *)
(* Every Python value is a record [k, fb, v]: k is the type ("none",       *)
(* "bool", "int", "float", "nan", "q") or, for the outcome of an           *)
(* expression that raised, the name of the exception.  Floats are          *)
(* integer-valued (their arithmetic is then exact) or NaN.                 *)
(***************************************************************************)
EXTENDS Integers, Sequences, FiniteSets, TLC

VARIABLES
    pc,             \* "new", "running", or the exception that ended the run
    tunnings,       \* Pid._tunnings
    limits,         \* Pid._limits
    auto_mode,      \* Pid._auto_mode
    A0, A1, A2,     \* Pid._A0, Pid._A1, Pid._A2
    prev_output,    \* Pid._prev_output
    error_history,  \* Pid._error_history, newest first
    set_point,      \* Pid._set_point
    op,             \* the method called last
    ret,            \* what that call returned (None when it raised)
    active_errors,  \* the errors of the active process calls since
                    \* construction or the last reset, newest first, at most 3
    calls,          \* the number of process calls made
    qop,            \* the QNumber method called last
    qself,          \* the QNumber it was called on (None for __init__)
    qother,         \* the operand of a binary method (None otherwise)
    qvalue,         \* the float passed to __init__
    qbits,          \* the fractional_bits passed to __init__ or from_raw
    qret,           \* the outcome of the call: its value or its exception
    qmsg,           \* the message of the exception, "" when none was raised
    qcount,         \* the operations qret has come through since __init__
    v_alpha,        \* the arguments of _calculate_switching_times
    v_beta,
    sector,         \* the sector function it dispatched to
    injected,       \* the pattern passed to _add_common_mode_injection (None
                    \* before)
    pattern,        \* the SvmOutput it returned
    dq_voltage,     \* the arguments of generate (None when it is not called)
    scaled_theta,
    duty_cycles,    \* the SvmOutput generate returned (None before)
    transform,      \* the ClarkePark calls: the input_phases and theta
                    \* passed to forward, the frame it returned and the
                    \* phases inverse(frame, theta) returned (None before)
    trig            \* the sine and cosine calls: the angle passed, and what
                    \* TrigonometricFunctions.sine and cosine and
                    \* SpaceVectorModulation._sine and _cosine returned

\* The controller and what is observed of its calls.
pid_vars == <<pc, tunnings, limits, auto_mode, A0, A1, A2,
              prev_output, error_history, set_point, op, ret, active_errors>>

\* The QNumber calls.
qnumber_vars == <<qop, qself, qother, qvalue, qbits, qret, qmsg, qcount>>

\* The space vector modulation calls.
svm_vars == <<v_alpha, v_beta, sector, injected, pattern,
              dq_voltage, scaled_theta, duty_cycles>>

\* The Clarke and Park transform calls, and the sine and cosine calls.
transform_vars == <<transform, trig>>

vars == <<pid_vars, calls, qnumber_vars, svm_vars, transform_vars>>

\* The fields of the controller.
pid_fields == <<tunnings, limits, auto_mode, A0, A1, A2,
                prev_output, error_history, set_point>>

----------------------------------------------------------------------------
(* Bounds of the inputs.                                                   *)

\* Set-points and feedback values are the floats 0.0 .. MaxVal.
MaxVal == 1

\* The process calls of the open-loop run.
ScenarioCalls == 100

\* The operations applied in a row to one constructed QNumber.
MaxOps == 3

\* The alpha and beta voltages are the floats (r + s*sqrt(3))/2 with r and
\* s in -MaxVolt .. MaxVolt.
MaxVolt == 2

\* The d and q voltages are the floats n/5 with n in -MaxDq .. MaxDq.
MaxDq == 5

\* The phase values are n/4 with n in -MaxPhase .. MaxPhase.
MaxPhase == 2

----------------------------------------------------------------------------
(* Python values.                                                          *)

None == [k |-> "none", fb |-> 0, v |-> 0]
Bool(b) == [k |-> "bool", fb |-> 0, v |-> IF b THEN 1 ELSE 0]
PyInt(n) == [k |-> "int", fb |-> 0, v |-> n]
Float(n) == [k |-> "float", fb |-> 0, v |-> n]
NaN == [k |-> "nan", fb |-> 0, v |-> 0]
Raise(e) == [k |-> e, fb |-> 0, v |-> 0]

\* A float that need not be whole, the argument of QNumber(value, ...):
\* the fraction n/d, or NaN.
Ratio(n, d) == [num |-> n, den |-> d]
RatioNaN == [num |-> 0, den |-> 0]

\* A float of the space vector modulation, where the square root of three
\* enters: (r + s*sqrt(3))/d with d > 0, taken as the exact real number.
Surd(r, s, d) == [r |-> r, s |-> s, d |-> d]

Exceptions == {"TypeError", "ValueError", "OverflowError", "ZeroDivisionError"}
IsRaised(x) == x.k \in Exceptions
IsReal(x) == x.k \in {"int", "float", "nan", "bool"}
IsQNumber(x) == x.k = "q"

\* bool(x): None and zero are false, NaN is true, and a QNumber, which
\* defines neither __bool__ nor __len__, is always true.
Truthy(x) ==
    CASE x.k = "none" -> FALSE
      [] x.k \in {"bool", "int", "float"} -> x.v # 0
      [] OTHER -> TRUE

RECURSIVE Pow2(_)
Pow2(n) == IF n = 0 THEN 1 ELSE 2 * Pow2(n - 1)

----------------------------------------------------------------------------
(* QNumber.                                                                *)

QNumber_max_value(fb) == Pow2(fb + 1) - 1
QNumber_min_value(fb) == -Pow2(fb + 1)

QNumber_from_raw(raw_value, fractional_bits) ==
    [k |-> "q", fb |-> fractional_bits, v |-> raw_value]

\* round(): to the nearest integer, a tie to the even one.
Round(n, d) ==
    LET fl == n \div d
        rem == n - fl * d
    IN  IF 2 * rem < d THEN fl
        ELSE IF 2 * rem > d THEN fl + 1
        ELSE IF fl % 2 = 0 THEN fl ELSE fl + 1

\* round(value * (1 << fractional_bits)) for the float n/d.  The product
\* with the power of two is exact; it is taken one doubling at a time,
\* against the denominator while that is even.
RECURSIVE QNumber_float_to_fixed(_, _)
QNumber_float_to_fixed(value, fractional_bits) ==
    IF fractional_bits = 0 THEN Round(value.num, value.den)
    ELSE IF value.den % 2 = 0
    THEN QNumber_float_to_fixed(Ratio(value.num, value.den \div 2),
                                fractional_bits - 1)
    ELSE QNumber_float_to_fixed(Ratio(2 * value.num, value.den),
                                fractional_bits - 1)

\* "not isinstance(fractional_bits, int) or fractional_bits not in (15, 31)":
\* a bool is an int, and True and False are neither 15 nor 31.
QNumber_invalid_bits(fractional_bits) ==
    \/ fractional_bits.k \notin {"int", "bool"}
    \/ fractional_bits.v \notin {15, 31}

\* "not -1.0 <= value < 1.0", true of NaN.
QNumber_invalid_value(value) ==
    \/ value = RatioNaN
    \/ ~(-value.den <= value.num /\ value.num < value.den)

\* QNumber(value, fractional_bits): the new object, or the exception.
QNumber_init(value, fractional_bits) ==
    IF QNumber_invalid_bits(fractional_bits) THEN Raise("ValueError")
    ELSE IF QNumber_invalid_value(value) THEN Raise("ValueError")
    ELSE QNumber_from_raw(QNumber_float_to_fixed(value, fractional_bits.v),
                          fractional_bits.v)

\* Mutant of QNumber_init_message: the range of the value is checked
\* before fractional_bits.
QNumber_init_message_range_first(value, fractional_bits) ==
    IF QNumber_invalid_value(value) THEN "Value out of range [-1.0, 1.0)"
    ELSE IF QNumber_invalid_bits(fractional_bits)
    THEN "fractional_bits must be either 15 or 31"
    ELSE ""

\* The message of the ValueError of QNumber(value, fractional_bits), less
\* the value it quotes; "" when it raises none.
QNumber_init_message(value, fractional_bits) ==
    IF QNumber_invalid_bits(fractional_bits)
    THEN "fractional_bits must be either 15 or 31"
    ELSE IF QNumber_invalid_value(value) THEN "Value out of range [-1.0, 1.0)"
    ELSE ""

\* The exception _validate_operation raises, or None when it returns.
QNumber_validate_operation(self, other) ==
    IF ~IsQNumber(other) THEN Raise("TypeError")
    ELSE IF self.fb # other.fb THEN Raise("ValueError")
    ELSE None

QNumber_checked(result, fb) ==
    IF result > QNumber_max_value(fb) \/ result < QNumber_min_value(fb)
    THEN Raise("OverflowError")
    ELSE QNumber_from_raw(result, fb)

QNumber_add(self, other) ==
    IF IsRaised(QNumber_validate_operation(self, other))
    THEN QNumber_validate_operation(self, other)
    ELSE QNumber_checked(self.v + other.v, self.fb)

QNumber_sub(self, other) ==
    IF IsRaised(QNumber_validate_operation(self, other))
    THEN QNumber_validate_operation(self, other)
    ELSE QNumber_checked(self.v - other.v, self.fb)

QNumber_mul(self, other) ==
    IF IsRaised(QNumber_validate_operation(self, other))
    THEN QNumber_validate_operation(self, other)
    ELSE QNumber_checked((self.v * other.v) \div Pow2(self.fb), self.fb)

QNumber_neg(self) ==
    IF self.v = QNumber_min_value(self.fb)
    THEN Raise("OverflowError")
    ELSE QNumber_from_raw(-self.v, self.fb)

\* Mutant of QNumber_truediv: the divisor is tested for zero before the
\* formats are compared.
QNumber_truediv_zero_first(self, other) ==
    IF IsQNumber(other) /\ other.v = 0 THEN Raise("ZeroDivisionError")
    ELSE IF IsRaised(QNumber_validate_operation(self, other))
    THEN QNumber_validate_operation(self, other)
    ELSE QNumber_checked((self.v * Pow2(self.fb)) \div other.v, self.fb)

QNumber_truediv(self, other) ==
    IF IsRaised(QNumber_validate_operation(self, other))
    THEN QNumber_validate_operation(self, other)
    ELSE IF other.v = 0 THEN Raise("ZeroDivisionError")
    ELSE QNumber_checked((self.v * Pow2(self.fb)) \div other.v, self.fb)

\* The message of the exception a method other than __init__ raised.
QNumber_message(method, outcome) ==
    CASE outcome.k = "TypeError" -> "Unsupported operand type"
      [] outcome.k = "ValueError" ->
            "Cannot operate on QNumbers with different formats"
      [] outcome.k = "ZeroDivisionError" -> "Division by zero"
      [] outcome.k = "OverflowError" ->
            CASE method = "__add__" -> "Addition result out of range"
              [] method = "__sub__" -> "Subtraction result out of range"
              [] method = "__mul__" -> "Multiplication result out of range"
              [] method = "__truediv__" -> "Division result out of range"
              [] OTHER -> "Cannot negate minimum value"
      [] OTHER -> ""

QNumber_eq(self, other) ==
    IF IsRaised(QNumber_validate_operation(self, other))
    THEN QNumber_validate_operation(self, other)
    ELSE Bool(self.v = other.v)

QNumber_lt(self, other) ==
    IF IsRaised(QNumber_validate_operation(self, other))
    THEN QNumber_validate_operation(self, other)
    ELSE Bool(self.v < other.v)

QNumber_le(self, other) ==
    IF IsRaised(QNumber_validate_operation(self, other))
    THEN QNumber_validate_operation(self, other)
    ELSE Bool(self.v <= other.v)

QNumber_gt(self, other) ==
    IF IsRaised(QNumber_validate_operation(self, other))
    THEN QNumber_validate_operation(self, other)
    ELSE Bool(self.v > other.v)

QNumber_ge(self, other) ==
    IF IsRaised(QNumber_validate_operation(self, other))
    THEN QNumber_validate_operation(self, other)
    ELSE Bool(self.v >= other.v)

----------------------------------------------------------------------------
(* Python's binary operators: the operands are evaluated left to right,    *)
(* the first exception wins; a QNumber operand on the left dispatches to   *)
(* the QNumber method, a QNumber on the right of an int or float finds no  *)
(* reflected method and raises TypeError.                                  *)

RealResult(a, b, n) ==
    IF a.k = "nan" \/ b.k = "nan" THEN NaN
    ELSE IF a.k = "float" \/ b.k = "float" THEN Float(n)
    ELSE PyInt(n)

Add(a, b) ==
    IF IsRaised(a) THEN a ELSE IF IsRaised(b) THEN b
    ELSE IF IsQNumber(a) THEN QNumber_add(a, b)
    ELSE IF IsReal(a) /\ IsReal(b) THEN RealResult(a, b, a.v + b.v)
    ELSE Raise("TypeError")

Sub(a, b) ==
    IF IsRaised(a) THEN a ELSE IF IsRaised(b) THEN b
    ELSE IF IsQNumber(a) THEN QNumber_sub(a, b)
    ELSE IF IsReal(a) /\ IsReal(b) THEN RealResult(a, b, a.v - b.v)
    ELSE Raise("TypeError")

Mul(a, b) ==
    IF IsRaised(a) THEN a ELSE IF IsRaised(b) THEN b
    ELSE IF IsQNumber(a) THEN QNumber_mul(a, b)
    ELSE IF IsReal(a) /\ IsReal(b) THEN RealResult(a, b, a.v * b.v)
    ELSE Raise("TypeError")

Neg(a) ==
    IF IsRaised(a) THEN a
    ELSE IF IsQNumber(a) THEN QNumber_neg(a)
    ELSE IF IsReal(a) THEN RealResult(a, a, -a.v)
    ELSE Raise("TypeError")

\* a < b.  int/float on the left of a QNumber tries the reflected
\* QNumber.__gt__(b, a), which raises TypeError in _validate_operation.
Lt(a, b) ==
    IF IsRaised(a) THEN a ELSE IF IsRaised(b) THEN b
    ELSE IF IsQNumber(a) THEN QNumber_lt(a, b)
    ELSE IF IsQNumber(b) THEN QNumber_gt(b, a)
    ELSE IF IsReal(a) /\ IsReal(b)
         THEN Bool(a.k # "nan" /\ b.k # "nan" /\ a.v < b.v)
    ELSE Raise("TypeError")

Gt(a, b) ==
    IF IsRaised(a) THEN a ELSE IF IsRaised(b) THEN b
    ELSE IF IsQNumber(a) THEN QNumber_gt(a, b)
    ELSE IF IsQNumber(b) THEN QNumber_lt(b, a)
    ELSE IF IsReal(a) /\ IsReal(b)
         THEN Bool(a.k # "nan" /\ b.k # "nan" /\ a.v > b.v)
    ELSE Raise("TypeError")

----------------------------------------------------------------------------
(* Inputs.  A controller is used with one numeric type T throughout: the   *)
(* type of its limits decides the values later calls pass.                 *)

QFormats == {15}
QRaws == {-16384, 0, 16384}

QValues == {QNumber_from_raw(r, f) : r \in QRaws, f \in QFormats}
FloatValues == {Float(n) : n \in 0 .. MaxVal}
FloatGains == {Float(0), Float(1)}
FloatLimits == {Float(-1), Float(1), Float(2)}

NumericTypes == {"float", "q"}

SetPoints(T) == IF T = "q" THEN QValues ELSE FloatValues
Feedbacks(T) == IF T = "q" THEN QValues ELSE FloatValues \cup {NaN}
Gains(T) == IF T = "q" THEN QValues ELSE FloatGains
LimitValues(T) == IF T = "q" THEN QValues ELSE FloatLimits

PidTunings(T) == [kp : Gains(T), ki : Gains(T), kd : Gains(T)]
PidLimits(T) == [min : LimitValues(T), max : LimitValues(T)]

\* The numeric type the running controller was constructed with.
T_of == IF IsQNumber(limits.min) THEN "q" ELSE "float"

----------------------------------------------------------------------------
(* Pid.                                                                    *)

Pid_A0(t) == Add(Add(t.kp, t.ki), t.kd)
\* Mutant of Pid_A1: the derivative gain is not doubled.
Pid_A1_kd_once(t) == Sub(Neg(t.kp), t.kd)
Pid_A1(t) == Sub(Neg(t.kp), Mul(PyInt(2), t.kd))
Pid_A2(t) == t.kd

Pid_create_zero == Float(0)

Pid_zero_history == <<Pid_create_zero, Pid_create_zero, Pid_create_zero>>

\* Mutant of Pid_invalid_limits: "if limits.min > limits.max", which lets
\* equal limits through.
Pid_invalid_limits_equal_allowed(l) ==
    IF IsRaised(Gt(l.min, l.max)) THEN Gt(l.min, l.max)
    ELSE Bool(Truthy(Gt(l.min, l.max)))

\* The value of "not limits.min < limits.max", or the exception of the
\* comparison.
Pid_invalid_limits(l) ==
    IF IsRaised(Lt(l.min, l.max)) THEN Lt(l.min, l.max)
    ELSE Bool(~Truthy(Lt(l.min, l.max)))

\* The call of method m returned r.
Returned(m, r) == op' = m /\ ret' = r

Pid_init(tn, lm, am) ==
    /\ pc = "new"
    /\ Returned("__init__", None)
    /\ active_errors' = <<>>
    /\ IF IsRaised(Pid_invalid_limits(lm))
       THEN pc' = Pid_invalid_limits(lm).k /\ UNCHANGED pid_fields
       ELSE IF Truthy(Pid_invalid_limits(lm))
       THEN pc' = "SystemExit" /\ UNCHANGED pid_fields
       ELSE /\ tunnings' = tn
            /\ limits' = lm
            /\ auto_mode' = am
            /\ IF IsRaised(Pid_A0(tn))
               THEN /\ pc' = Pid_A0(tn).k
                    /\ UNCHANGED <<A0, A1, A2, prev_output, error_history, set_point>>
               ELSE IF IsRaised(Pid_A1(tn))
               THEN /\ pc' = Pid_A1(tn).k
                    /\ A0' = Pid_A0(tn)
                    /\ UNCHANGED <<A1, A2, prev_output, error_history, set_point>>
               ELSE /\ pc' = "running"
                    /\ A0' = Pid_A0(tn)
                    /\ A1' = Pid_A1(tn)
                    /\ A2' = Pid_A2(tn)
                    /\ prev_output' = Pid_create_zero
                    /\ error_history' = Pid_zero_history
                    /\ set_point' = None

Pid_set_point(sp) ==
    /\ pc = "running"
    /\ set_point' = sp
    /\ Returned("set_point", None)
    /\ UNCHANGED <<pc, tunnings, limits, auto_mode, A0, A1, A2,
                   prev_output, error_history, active_errors>>

\* Mutant of Pid_reset_state: the error history is kept.
Pid_reset_state_output_only ==
    /\ prev_output' = Pid_create_zero
    /\ UNCHANGED error_history

Pid_reset_state ==
    /\ prev_output' = Pid_create_zero
    /\ error_history' = Pid_zero_history

Pid_reset ==
    /\ pc = "running"
    /\ Pid_reset_state
    /\ Returned("reset", None)
    /\ active_errors' = <<>>
    /\ UNCHANGED <<pc, tunnings, limits, auto_mode, A0, A1, A2, set_point>>

\* Mutant of Pid_enable: the mode is switched on without a reset.
Pid_enable_no_reset ==
    /\ pc = "running"
    /\ auto_mode' = TRUE
    /\ Returned("enable", None)
    /\ active_errors' = IF ~auto_mode THEN <<>> ELSE active_errors
    /\ UNCHANGED <<pc, tunnings, limits, A0, A1, A2, set_point,
                   prev_output, error_history>>

Pid_enable ==
    /\ pc = "running"
    /\ IF ~auto_mode THEN Pid_reset_state
                     ELSE UNCHANGED <<prev_output, error_history>>
    /\ auto_mode' = TRUE
    /\ Returned("enable", None)
    /\ active_errors' = IF ~auto_mode THEN <<>> ELSE active_errors
    /\ UNCHANGED <<pc, tunnings, limits, A0, A1, A2, set_point>>

\* Mutant of Pid_disable: leaving auto mode also resets the state.
Pid_disable_resets ==
    /\ pc = "running"
    /\ auto_mode' = FALSE
    /\ Pid_reset_state
    /\ Returned("disable", None)
    /\ active_errors' = <<>>
    /\ UNCHANGED <<pc, tunnings, limits, A0, A1, A2, set_point>>

Pid_disable ==
    /\ pc = "running"
    /\ auto_mode' = FALSE
    /\ Returned("disable", None)
    /\ UNCHANGED <<pc, tunnings, limits, A0, A1, A2,
                   prev_output, error_history, set_point, active_errors>>

Pid_set_limits(lm) ==
    /\ pc = "running"
    /\ Returned("set_limits", None)
    /\ IF IsRaised(Pid_invalid_limits(lm))
       THEN pc' = Pid_invalid_limits(lm).k /\ UNCHANGED limits
       ELSE IF Truthy(Pid_invalid_limits(lm))
       THEN pc' = "SystemExit" /\ UNCHANGED limits
       ELSE pc' = pc /\ limits' = lm
    /\ UNCHANGED <<tunnings, auto_mode, A0, A1, A2,
                   prev_output, error_history, set_point, active_errors>>

\* Mutant of Pid_set_tunnings: the tunings are stored, the coefficients are
\* left for later.
Pid_set_tunnings_stale(tn) ==
    /\ pc = "running"
    /\ Returned("set_tunnings", None)
    /\ tunnings' = tn
    /\ UNCHANGED <<pc, A0, A1, A2, limits, auto_mode, prev_output,
                   error_history, set_point, active_errors>>

Pid_set_tunnings(tn) ==
    /\ pc = "running"
    /\ Returned("set_tunnings", None)
    /\ tunnings' = tn
    /\ IF IsRaised(Pid_A0(tn))
       THEN pc' = Pid_A0(tn).k /\ UNCHANGED <<A0, A1, A2>>
       ELSE IF IsRaised(Pid_A1(tn))
       THEN pc' = Pid_A1(tn).k /\ A0' = Pid_A0(tn) /\ UNCHANGED <<A1, A2>>
       ELSE /\ pc' = pc
            /\ A0' = Pid_A0(tn)
            /\ A1' = Pid_A1(tn)
            /\ A2' = Pid_A2(tn)
    /\ UNCHANGED <<limits, auto_mode, prev_output, error_history, set_point,
                   active_errors>>

\* Mutant of Pid_clamp: the lower limit is not applied.
Pid_clamp_max_only(input_value, l) ==
    IF IsRaised(Gt(input_value, l.max)) THEN Gt(input_value, l.max)
    ELSE IF Truthy(Gt(input_value, l.max)) THEN l.max
    ELSE input_value

\* clamp, with the limits it reads as a parameter.
Pid_clamp(input_value, l) ==
    IF IsRaised(Gt(input_value, l.max)) THEN Gt(input_value, l.max)
    ELSE IF Truthy(Gt(input_value, l.max)) THEN l.max
    ELSE IF IsRaised(Lt(input_value, l.min)) THEN Lt(input_value, l.min)
    ELSE IF Truthy(Lt(input_value, l.min)) THEN l.min
    ELSE input_value

\* Mutant of Pid_hold: the mode flag is not tested.
Pid_hold_ignores_mode(sp, am) == ~Truthy(sp)

\* The guard of the hold path: "not self._set_point or not self._auto_mode".
Pid_hold(sp, am) == ~Truthy(sp) \/ ~am

\* Mutant of Pid_hold_value: the held output is clamped on its way out.
Pid_hold_value_clamped(y, l) == Pid_clamp(y, l)

\* What the hold path returns.
Pid_hold_value(y, l) == y

\* Mutant of Pid_appendleft: the middle entry is dropped, the oldest kept.
Pid_appendleft_keeps_oldest(h, error) == <<error, h[1], h[3]>>

\* Mutant of Pid_appendleft: the new error overwrites the newest entry, the
\* older entries stay in place.
Pid_appendleft_in_place(h, error) == <<error, h[2], h[3]>>

\* deque.appendleft on a deque of maxlen 3.
Pid_appendleft(h, error) == <<error, h[1], h[2]>>

\* Mutant of Pid_output: the terms of the two past errors are left out.
Pid_output_newest_only(y, a0, a1, a2, h) == Add(y, Mul(a0, h[1]))

\* y[n] = y[n-1] + A0*x[n] + A1*x[n-1] + A2*x[n-2] over the history h.
Pid_output(y, a0, a1, a2, h) ==
    Add(Add(Add(y, Mul(a0, h[1])), Mul(a1, h[2])), Mul(a2, h[3]))

\* The newest three entries of the errors seen, e the newest.
Observed(e, es) == SubSeq(<<e>> \o es, 1, IF Len(es) < 3 THEN Len(es) + 1 ELSE 3)

Pid_process(measured_process_variable) ==
    /\ pc = "running"
    /\ op' = "process"
    /\ IF Pid_hold(set_point, auto_mode)
       THEN /\ ret' = Pid_hold_value(prev_output, limits)
            /\ UNCHANGED <<pc, pid_fields, active_errors>>
       ELSE LET error == Sub(set_point, measured_process_variable)
                h == Pid_appendleft(error_history, error)
                output == Pid_clamp(Pid_output(prev_output, A0, A1, A2, h), limits)
            IN  IF IsRaised(error)
                THEN /\ pc' = error.k
                     /\ ret' = None
                     /\ UNCHANGED <<pid_fields, active_errors>>
                ELSE /\ error_history' = h
                     /\ active_errors' = Observed(error, active_errors)
                     /\ IF IsRaised(output)
                        THEN /\ pc' = output.k
                             /\ ret' = None
                             /\ UNCHANGED prev_output
                        ELSE /\ pc' = pc
                             /\ prev_output' = output
                             /\ ret' = output
                     /\ UNCHANGED <<tunnings, limits, auto_mode, A0, A1, A2,
                                    set_point>>

----------------------------------------------------------------------------
(* The specification: a caller constructs one controller and then calls    *)
(* its methods in any order, with any arguments of the controller's        *)
(* numeric type.  A call that raises or exits ends the run.                *)

NoTunings == [kp |-> None, ki |-> None, kd |-> None]
NoLimits == [min |-> None, max |-> None]

\* No controller constructed.
PidNew ==
    /\ pc = "new"
    /\ tunnings = NoTunings
    /\ limits = NoLimits
    /\ auto_mode = FALSE
    /\ A0 = None
    /\ A1 = None
    /\ A2 = None
    /\ prev_output = None
    /\ error_history = <<None, None, None>>
    /\ set_point = None
    /\ op = "new"
    /\ ret = None
    /\ active_errors = <<>>

\* No QNumber method called.
QNumberIdle ==
    /\ qop = "new"
    /\ qself = None
    /\ qother = None
    /\ qvalue = Ratio(0, 1)
    /\ qbits = 0
    /\ qret = None
    /\ qmsg = ""
    /\ qcount = 0

\* No switching times calculated.
SvmIdle ==
    /\ v_alpha = Surd(0, 0, 1)
    /\ v_beta = Surd(0, 0, 1)
    /\ sector = "none"
    /\ injected = None
    /\ pattern = [a |-> Surd(0, 0, 1), b |-> Surd(0, 0, 1), c |-> Surd(0, 0, 1)]
    /\ dq_voltage = None
    /\ scaled_theta = None
    /\ duty_cycles = None

\* No transform and no sine or cosine calculated.
TransformIdle ==
    /\ transform = None
    /\ trig = None

Init == PidNew /\ calls = 0 /\ QNumberIdle /\ SvmIdle /\ TransformIdle

\* What the calls on the controller leave alone.
not_pid == <<calls, qnumber_vars, svm_vars, transform_vars>>

Construct ==
    \E T \in NumericTypes : \E tn \in PidTunings(T) : \E lm \in PidLimits(T) :
        \E am \in BOOLEAN : Pid_init(tn, lm, am) /\ UNCHANGED not_pid

SetPoint == \E sp \in SetPoints(T_of) : Pid_set_point(sp) /\ UNCHANGED not_pid
Enable == Pid_enable /\ UNCHANGED not_pid
Disable == Pid_disable /\ UNCHANGED not_pid
SetLimits == \E lm \in PidLimits(T_of) : Pid_set_limits(lm) /\ UNCHANGED not_pid
SetTunnings == \E tn \in PidTunings(T_of) : Pid_set_tunnings(tn) /\ UNCHANGED not_pid
Process == \E m \in Feedbacks(T_of) : Pid_process(m) /\ UNCHANGED not_pid
Reset == Pid_reset /\ UNCHANGED not_pid

Next ==
    \/ Construct
    \/ SetPoint
    \/ Enable
    \/ Disable
    \/ SetLimits
    \/ SetTunnings
    \/ Process
    \/ Reset

Spec == Init /\ [][Next]_vars

----------------------------------------------------------------------------
(* The open-loop run: one controller with kp = 1.0, ki = 0.1, kd = 0.35    *)
(* and limits [-100, 100] is given the set-point 60 and then fed the       *)
(* measurement 20 call after call.  The gains, the limits and with them    *)
(* the outputs are held in twentieths (the recurrence and the clamp are    *)
(* linear in them), which keeps every float of the run whole: an output    *)
(* 1160 stands for 58.0.                                                   *)

ScenarioTunings == [kp |-> Float(20), ki |-> Float(2), kd |-> Float(7)]
ScenarioLimits == [min |-> Float(-2000), max |-> Float(2000)]
ScenarioSetPoint == Float(60)
ScenarioFeedback == Float(20)

ScenarioConstruct ==
    /\ Pid_init(ScenarioTunings, ScenarioLimits, TRUE)
    /\ UNCHANGED not_pid

ScenarioSetPointCall ==
    /\ op = "__init__"
    /\ Pid_set_point(ScenarioSetPoint)
    /\ UNCHANGED not_pid

ScenarioProcess ==
    /\ op \in {"set_point", "process"}
    /\ calls < ScenarioCalls
    /\ Pid_process(ScenarioFeedback)
    /\ calls' = calls + 1
    /\ UNCHANGED <<qnumber_vars, svm_vars, transform_vars>>

ScenarioNext ==
    \/ ScenarioConstruct
    \/ ScenarioSetPointCall
    \/ ScenarioProcess

ScenarioSpec == Init /\ [][ScenarioNext]_vars

----------------------------------------------------------------------------
(* QNumber on its own: a caller constructs a QNumber from a float and      *)
(* applies up to MaxOps operations to it in a row, each to the result of   *)
(* the one before, the other operand a QNumber constructed for the         *)
(* purpose or a float; a comparison or an exception ends the row and the   *)
(* caller constructs the next number.                                      *)

\* The floats passed to QNumber(): the ends of [-1.0, 1.0), values inside
\* and outside, NaN.
QFloatArgs ==
    {Ratio(-5, 4), Ratio(-1, 1), Ratio(-1, 2), Ratio(0, 1), Ratio(1, 2),
     Ratio(999, 1000), Ratio(1, 1), Ratio(5, 4), RatioNaN}

\* The values passed as fractional_bits.
QBitsArgs ==
    {PyInt(15), PyInt(31), PyInt(0), PyInt(16), PyInt(32), Bool(TRUE),
     Float(15), None}

\* The argument lists of QNumber().  0.999 at 31 bits is left out: its raw
\* value times 1000 is beyond the 32-bit integers of the model checker.
QNumberArgs ==
    {a \in QFloatArgs \X QBitsArgs :
        ~(a[1] = Ratio(999, 1000) /\ a[2] = PyInt(31))}

\* The other operand of a binary operation.  -1.0 is left out: its product
\* with the raw value -65536 is beyond the 32-bit integers.
QOperands ==
    {QNumber_init(value, PyInt(15)) :
        value \in {Ratio(-1, 2), Ratio(0, 1), Ratio(1, 2), Ratio(999, 1000)}}
    \cup {QNumber_init(value, PyInt(31)) : value \in {Ratio(0, 1), Ratio(1, 2)}}
    \cup {Float(0)}

\* Arithmetic on two operands of 31 bits is not explored: its range check
\* computes 2^32.
Explored(self, other) == self.fb = 15 \/ ~IsQNumber(other) \/ other.fb = 15

QNumber_new(value, fractional_bits) ==
    /\ qop' = "__init__"
    /\ qself' = None
    /\ qother' = None
    /\ qvalue' = value
    /\ qbits' = fractional_bits
    /\ qret' = QNumber_init(value, fractional_bits)
    /\ qmsg' = QNumber_init_message(value, fractional_bits)
    /\ qcount' = 0
    /\ UNCHANGED <<pid_vars, calls, svm_vars, transform_vars>>

\* The call qret.method(other) with the given outcome.
QNumber_call(method, other, outcome) ==
    /\ qcount < MaxOps
    /\ qop' = method
    /\ qself' = qret
    /\ qother' = other
    /\ qret' = outcome
    /\ qmsg' = QNumber_message(method, outcome)
    /\ qcount' = qcount + 1
    /\ UNCHANGED <<qvalue, qbits, pid_vars, calls, svm_vars, transform_vars>>

QConstruct == \E a \in QNumberArgs : QNumber_new(a[1], a[2])

QAdd ==
    /\ IsQNumber(qret)
    /\ \E other \in QOperands :
          /\ Explored(qret, other)
          /\ QNumber_call("__add__", other, QNumber_add(qret, other))

QSub ==
    /\ IsQNumber(qret)
    /\ \E other \in QOperands :
          /\ Explored(qret, other)
          /\ QNumber_call("__sub__", other, QNumber_sub(qret, other))

QMul ==
    /\ IsQNumber(qret)
    /\ \E other \in QOperands :
          /\ Explored(qret, other)
          /\ QNumber_call("__mul__", other, QNumber_mul(qret, other))

QDiv ==
    /\ IsQNumber(qret)
    /\ \E other \in QOperands :
          /\ Explored(qret, other)
          /\ QNumber_call("__truediv__", other, QNumber_truediv(qret, other))

QNeg ==
    /\ IsQNumber(qret)
    /\ qret.fb = 15
    /\ QNumber_call("__neg__", None, QNumber_neg(qret))

QEq ==
    /\ IsQNumber(qret)
    /\ \E other \in QOperands :
          QNumber_call("__eq__", other, QNumber_eq(qret, other))

QLt ==
    /\ IsQNumber(qret)
    /\ \E other \in QOperands :
          QNumber_call("__lt__", other, QNumber_lt(qret, other))

QLe ==
    /\ IsQNumber(qret)
    /\ \E other \in QOperands :
          QNumber_call("__le__", other, QNumber_le(qret, other))

QGt ==
    /\ IsQNumber(qret)
    /\ \E other \in QOperands :
          QNumber_call("__gt__", other, QNumber_gt(qret, other))

QGe ==
    /\ IsQNumber(qret)
    /\ \E other \in QOperands :
          QNumber_call("__ge__", other, QNumber_ge(qret, other))

QNext ==
    \/ QConstruct
    \/ QAdd
    \/ QSub
    \/ QMul
    \/ QDiv
    \/ QNeg
    \/ QEq
    \/ QLt
    \/ QLe
    \/ QGt
    \/ QGe

QSpec == Init /\ [][QNext]_vars

----------------------------------------------------------------------------
(* SpaceVectorModulation over floats (no trig_functions provider).  Its    *)
(* floats are the numbers (r + s*sqrt(3))/d, its arithmetic is taken as    *)
(* exact.                                                                  *)

RECURSIVE GCD(_, _)
GCD(a, b) == IF b = 0 THEN a ELSE GCD(b, a % b)

Abs(n) == IF n < 0 THEN -n ELSE n

\* The same number in lowest terms.
Lowest(x) ==
    LET g == GCD(GCD(Abs(x.r), Abs(x.s)), x.d)
    IN  Surd(x.r \div g, x.s \div g, x.d \div g)

SurdAdd(x, y) == Lowest(Surd(x.r * y.d + y.r * x.d, x.s * y.d + y.s * x.d, x.d * y.d))
SurdNeg(x) == Surd(-x.r, -x.s, x.d)
SurdSub(x, y) == SurdAdd(x, SurdNeg(y))
SurdMul(x, y) ==
    Lowest(Surd(x.r * y.r + 3 * x.s * y.s, x.r * y.s + x.s * y.r, x.d * y.d))

\* x >= 0: the sign of r + s*sqrt(3), from the signs of r and s and, where
\* they differ, from r*r against 3*s*s.
SurdNonNegative(x) ==
    IF x.r >= 0 /\ x.s >= 0 THEN TRUE
    ELSE IF x.r <= 0 /\ x.s <= 0 THEN FALSE
    ELSE IF x.r > 0 THEN x.r * x.r > 3 * x.s * x.s
    ELSE 3 * x.s * x.s > x.r * x.r

\* x / y for y # 0: x times d*(r - s*sqrt(3)) / (r*r - 3*s*s).
SurdDiv(x, y) ==
    LET n == y.r * y.r - 3 * y.s * y.s
        inverse == IF n > 0 THEN Surd(y.d * y.r, -(y.d * y.s), n)
                   ELSE Surd(-(y.d * y.r), y.d * y.s, -n)
    IN  SurdMul(x, Lowest(inverse))

SurdLt(x, y) == ~SurdNonNegative(SurdSub(x, y))
SurdGt(x, y) == SurdLt(y, x)

\* _initialize_constants, the float branch.
Svm_zero == Surd(0, 0, 1)
Svm_one == Surd(1, 0, 1)
Svm_half == Surd(1, 0, 2)
Svm_inv_sqrt3 == Surd(0, 1, 3)
Svm_sqrt3_div2 == Surd(0, 1, 2)
Svm_two_div_sqrt3 == Surd(0, 2, 3)
Svm_output_scale == Surd(1, 0, 1)

SvmOutput(a, b, c) == [a |-> a, b |-> b, c |-> c]

\* Mutant of Svm_add_common_mode_injection: slot c is returned as passed.
Svm_add_common_mode_injection_two_slots(p) ==
    LET t0 == SurdSub(SurdSub(SurdSub(Svm_one, p.a), p.b), p.c)
        t_com == SurdMul(t0, Svm_half)
    IN  SvmOutput(SurdAdd(p.a, t_com), SurdAdd(p.b, t_com), p.c)

Svm_add_common_mode_injection(p) ==
    LET t0 == SurdSub(SurdSub(SurdSub(Svm_one, p.a), p.b), p.c)
        t_com == SurdMul(t0, Svm_half)
    IN  SvmOutput(SurdAdd(p.a, t_com), SurdAdd(p.b, t_com), SurdAdd(p.c, t_com))

\* The pattern _calculate_60_to_120_degrees passes to the injection.
Svm_pattern_60_to_120_degrees(va, vb) ==
    LET t1 == SurdAdd(va, SurdMul(vb, Svm_inv_sqrt3))
        t2 == SurdAdd(SurdNeg(va), SurdMul(vb, Svm_inv_sqrt3))
    IN  SvmOutput(t2, SurdAdd(t1, t2), Svm_zero)

Svm_calculate_60_to_120_degrees(va, vb) ==
    Svm_add_common_mode_injection(Svm_pattern_60_to_120_degrees(va, vb))

\* The pattern _calculate_120_to_180_degrees passes to the injection.
Svm_pattern_120_to_180_degrees(va, vb) ==
    LET t1 == SurdAdd(SurdNeg(va), SurdMul(vb, Svm_inv_sqrt3))
        t2 == SurdSub(SurdNeg(va), SurdMul(vb, Svm_inv_sqrt3))
    IN  SvmOutput(Svm_zero, SurdAdd(t1, t2), t2)

Svm_calculate_120_to_180_degrees(va, vb) ==
    Svm_add_common_mode_injection(Svm_pattern_120_to_180_degrees(va, vb))

\* The pattern _calculate_180_to_240_degrees passes to the injection.
Svm_pattern_180_to_240_degrees(va, vb) ==
    LET t1 == SurdSub(SurdNeg(va), SurdMul(vb, Svm_inv_sqrt3))
        t2 == SurdMul(vb, Svm_two_div_sqrt3)
    IN  SvmOutput(Svm_zero, t2, SurdAdd(t1, t2))

Svm_calculate_180_to_240_degrees(va, vb) ==
    Svm_add_common_mode_injection(Svm_pattern_180_to_240_degrees(va, vb))

\* The pattern _calculate_240_to_300_degrees passes to the injection.
Svm_pattern_240_to_300_degrees(va, vb) ==
    LET t1 == SurdAdd(SurdNeg(va), SurdMul(vb, Svm_inv_sqrt3))
        t2 == SurdMul(SurdNeg(vb), Svm_two_div_sqrt3)
    IN  SvmOutput(t2, Svm_zero, SurdAdd(t1, t2))

Svm_calculate_240_to_300_degrees(va, vb) ==
    Svm_add_common_mode_injection(Svm_pattern_240_to_300_degrees(va, vb))

\* The pattern _calculate_300_to_360_degrees passes to the injection.
Svm_pattern_300_to_360_degrees(va, vb) ==
    LET t1 == SurdAdd(va, SurdMul(vb, Svm_inv_sqrt3))
        t2 == SurdSub(SurdNeg(va), SurdMul(vb, Svm_inv_sqrt3))
    IN  SvmOutput(SurdAdd(t1, t2), Svm_zero, t2)

Svm_calculate_300_to_360_degrees(va, vb) ==
    Svm_add_common_mode_injection(Svm_pattern_300_to_360_degrees(va, vb))

\* The pattern _calculate_0_to_60_degrees passes to the injection.
Svm_pattern_0_to_60_degrees(va, vb) ==
    LET t1 == SurdSub(va, SurdMul(vb, Svm_inv_sqrt3))
        t2 == SurdMul(vb, Svm_two_div_sqrt3)
    IN  SvmOutput(SurdAdd(t1, t2), t2, Svm_zero)

Svm_calculate_0_to_60_degrees(va, vb) ==
    Svm_add_common_mode_injection(Svm_pattern_0_to_60_degrees(va, vb))

Svm_v_ref_60(va, vb) ==
    SurdSub(SurdMul(va, Svm_half), SurdMul(vb, Svm_sqrt3_div2))

Svm_v_ref_120(va, vb) ==
    SurdSub(SurdMul(SurdNeg(va), Svm_half), SurdMul(vb, Svm_sqrt3_div2))

\* Mutant of Svm_sector: the fourth test is on -v_beta.
Svm_sector_fourth_on_beta(va, vb) ==
    IF SurdNonNegative(Svm_v_ref_60(va, vb)) THEN "60_to_120"
    ELSE IF SurdNonNegative(Svm_v_ref_120(va, vb)) THEN "120_to_180"
    ELSE IF SurdNonNegative(SurdNeg(va)) THEN "180_to_240"
    ELSE IF SurdNonNegative(SurdNeg(vb)) THEN "240_to_300"
    ELSE IF SurdNonNegative(SurdNeg(Svm_v_ref_120(va, vb))) THEN "300_to_360"
    ELSE "0_to_60"

\* Mutant of Svm_sector: -v_alpha is tested before v_ref_120.
Svm_sector_alpha_before_120(va, vb) ==
    IF SurdNonNegative(Svm_v_ref_60(va, vb)) THEN "60_to_120"
    ELSE IF SurdNonNegative(SurdNeg(va)) THEN "180_to_240"
    ELSE IF SurdNonNegative(Svm_v_ref_120(va, vb)) THEN "120_to_180"
    ELSE IF SurdNonNegative(SurdNeg(Svm_v_ref_60(va, vb))) THEN "240_to_300"
    ELSE IF SurdNonNegative(SurdNeg(Svm_v_ref_120(va, vb))) THEN "300_to_360"
    ELSE "0_to_60"

\* The sector function _calculate_switching_times returns from.
Svm_sector(va, vb) ==
    IF SurdNonNegative(Svm_v_ref_60(va, vb)) THEN "60_to_120"
    ELSE IF SurdNonNegative(Svm_v_ref_120(va, vb)) THEN "120_to_180"
    ELSE IF SurdNonNegative(SurdNeg(va)) THEN "180_to_240"
    ELSE IF SurdNonNegative(SurdNeg(Svm_v_ref_60(va, vb))) THEN "240_to_300"
    ELSE IF SurdNonNegative(SurdNeg(Svm_v_ref_120(va, vb))) THEN "300_to_360"
    ELSE "0_to_60"

\* The SvmOutput of the sector function named.
Svm_sector_pattern(name, va, vb) ==
    CASE name = "60_to_120" -> Svm_calculate_60_to_120_degrees(va, vb)
      [] name = "120_to_180" -> Svm_calculate_120_to_180_degrees(va, vb)
      [] name = "180_to_240" -> Svm_calculate_180_to_240_degrees(va, vb)
      [] name = "240_to_300" -> Svm_calculate_240_to_300_degrees(va, vb)
      [] name = "300_to_360" -> Svm_calculate_300_to_360_degrees(va, vb)
      [] OTHER -> Svm_calculate_0_to_60_degrees(va, vb)

\* The pattern the sector function named passes to the injection.
Svm_sector_injected(name, va, vb) ==
    CASE name = "60_to_120" -> Svm_pattern_60_to_120_degrees(va, vb)
      [] name = "120_to_180" -> Svm_pattern_120_to_180_degrees(va, vb)
      [] name = "180_to_240" -> Svm_pattern_180_to_240_degrees(va, vb)
      [] name = "240_to_300" -> Svm_pattern_240_to_300_degrees(va, vb)
      [] name = "300_to_360" -> Svm_pattern_300_to_360_degrees(va, vb)
      [] OTHER -> Svm_pattern_0_to_60_degrees(va, vb)

\* The call on the arguments v_alpha, v_beta.
Svm_calculate_switching_times ==
    /\ sector = "none"
    /\ sector' = Svm_sector(v_alpha, v_beta)
    /\ injected' = Svm_sector_injected(Svm_sector(v_alpha, v_beta), v_alpha, v_beta)
    /\ pattern' = Svm_sector_pattern(Svm_sector(v_alpha, v_beta), v_alpha, v_beta)
    /\ UNCHANGED <<v_alpha, v_beta, dq_voltage, scaled_theta, duty_cycles,
                   pid_vars, calls, qnumber_vars, transform_vars>>

SvmVoltages ==
    {Lowest(Surd(r, s, 2)) : r \in -MaxVolt .. MaxVolt, s \in -MaxVolt .. MaxVolt}

\* The function is pure: a run is one call, on any pair of voltages.
SvmInit ==
    /\ PidNew /\ calls = 0 /\ QNumberIdle /\ TransformIdle
    /\ v_alpha \in SvmVoltages
    /\ v_beta \in SvmVoltages
    /\ sector = "none"
    /\ injected = None
    /\ pattern = SvmOutput(Svm_zero, Svm_zero, Svm_zero)
    /\ dq_voltage = None
    /\ scaled_theta = None
    /\ duty_cycles = None

CalculateSwitchingTimes == Svm_calculate_switching_times

SvmNext == CalculateSwitchingTimes

SvmSpec == SvmInit /\ [][SvmNext]_vars

\* The angle as a whole number of twelfths of a turn.
Twelfths(angle) == ((12 * angle.num) \div angle.den) % 12

\* math.sin(2.0 * math.pi * k/12).
SinTwelfths(k) ==
    CASE k \in {0, 6} -> Surd(0, 0, 1)
      [] k \in {1, 5} -> Surd(1, 0, 2)
      [] k \in {2, 4} -> Surd(0, 1, 2)
      [] k = 3 -> Surd(1, 0, 1)
      [] k \in {7, 11} -> Surd(-1, 0, 2)
      [] k \in {8, 10} -> Surd(0, -1, 2)
      [] OTHER -> Surd(-1, 0, 1)

Svm_sine(angle) == SinTwelfths(Twelfths(angle))
Svm_cosine(angle) == SinTwelfths((Twelfths(angle) + 3) % 12)

\* Mutant of Svm_clamp_duty_cycle: a duty above one is passed through.
Svm_clamp_duty_cycle_floor_only(duty) ==
    IF SurdLt(duty, Svm_zero) THEN Svm_zero
    ELSE SurdDiv(duty, Svm_output_scale)

Svm_clamp_duty_cycle(duty) ==
    IF SurdLt(duty, Svm_zero) THEN Svm_zero
    ELSE IF SurdGt(duty, Svm_one) THEN SurdDiv(Svm_one, Svm_output_scale)
    ELSE SurdDiv(duty, Svm_output_scale)

\* The duty cycles generate makes of the pattern p.
DutyOf(p) ==
    SvmOutput(Svm_clamp_duty_cycle(p.a), Svm_clamp_duty_cycle(p.b),
              Svm_clamp_duty_cycle(p.c))

\* generate(dq_voltage, scaled_theta), on the arguments held.
Svm_generate ==
    LET d == SurdMul(dq_voltage.d, Svm_output_scale)
        q == SurdMul(dq_voltage.q, Svm_output_scale)
        cos_theta == Svm_cosine(scaled_theta)
        sin_theta == Svm_sine(scaled_theta)
        va == SurdSub(SurdMul(d, cos_theta), SurdMul(q, sin_theta))
        vb == SurdAdd(SurdMul(d, sin_theta), SurdMul(q, cos_theta))
        p == Svm_sector_pattern(Svm_sector(va, vb), va, vb)
    IN  /\ duty_cycles = None
        /\ v_alpha' = va
        /\ v_beta' = vb
        /\ sector' = Svm_sector(va, vb)
        /\ injected' = Svm_sector_injected(Svm_sector(va, vb), va, vb)
        /\ pattern' = p
        /\ duty_cycles' = DutyOf(p)
        /\ UNCHANGED <<dq_voltage, scaled_theta, pid_vars, calls, qnumber_vars,
                       transform_vars>>

\* RotatingFrame components.
SvmDqValues == {Lowest(Surd(n, 0, 5)) : n \in -MaxDq .. MaxDq}

\* Normalized angles.
SvmThetas == {Ratio(k, 12) : k \in 0 .. 11}

\* generate keeps no state: a run is one call, on any voltage and angle.
GenerateInit ==
    /\ PidNew /\ calls = 0 /\ QNumberIdle /\ TransformIdle
    /\ dq_voltage \in [d : SvmDqValues, q : SvmDqValues]
    /\ scaled_theta \in SvmThetas
    /\ v_alpha = Svm_zero
    /\ v_beta = Svm_zero
    /\ sector = "none"
    /\ injected = None
    /\ pattern = SvmOutput(Svm_zero, Svm_zero, Svm_zero)
    /\ duty_cycles = None

Generate == Svm_generate

GenerateNext == Generate

GenerateSpec == GenerateInit /\ [][GenerateNext]_vars

----------------------------------------------------------------------------
(* The Clarke and Park transforms (TransformsClarkeAndPark.py) over        *)
(* QNumbers of the format Q15 and over floats.  A float operand is a       *)
(* number (r + s*sqrt(3))/d, a float angle a fraction n/d.                 *)

\* isinstance(x, QNumber), of a QNumber or a float.
IsInstanceQNumber(x) == "k" \in DOMAIN x /\ x.k = "q"

\* x + y, x - y, x * y and -x of two QNumbers or two floats.
Plus(x, y) == IF IsInstanceQNumber(x) \/ IsInstanceQNumber(y) THEN Add(x, y) ELSE SurdAdd(x, y)
Minus(x, y) == IF IsInstanceQNumber(x) \/ IsInstanceQNumber(y) THEN Sub(x, y) ELSE SurdSub(x, y)
Times(x, y) == IF IsInstanceQNumber(x) \/ IsInstanceQNumber(y) THEN Mul(x, y) ELSE SurdMul(x, y)
Negated(x) == IF IsInstanceQNumber(x) THEN Neg(x) ELSE SurdNeg(x)

ThreePhase(a, b, c) == [a |-> a, b |-> b, c |-> c]
TwoPhase(alpha, beta) == [alpha |-> alpha, beta |-> beta]
RotatingFrame(d, q) == [d |-> d, q |-> q]

\* QNumber.to_float: the raw value over 2^fractional_bits.
QNumber_to_float(self) == Ratio(self.v, Pow2(self.fb))

\* math.sin(x) and math.cos(x) of x radians, x a fraction: 0 and 1 at 0;
\* at any other fraction a number that is no (r + s*sqrt(3))/d, kept as
\* the expression it is.
SinRadians(x) == IF x.num = 0 THEN Surd(0, 0, 1) ELSE [sin |-> x]
CosRadians(x) == IF x.num = 0 THEN Surd(1, 0, 1) ELSE [cos |-> x]

\* x * 0.99 as the float QNumber() is given, for x one of 0, 1/2, 1 and
\* their negatives.
Times099(x) == Ratio(99 * x.r, 100 * x.d)

\* The angles of a QNumber are whole quarter turns here, where the sine and
\* cosine are 0, 1 or -1.
TrigonometricFunctions_sine(th) ==
    IF IsInstanceQNumber(th)
    THEN QNumber_init(Times099(SinTwelfths(Twelfths(QNumber_to_float(th)))),
                      PyInt(th.fb))
    ELSE SinRadians(th)

TrigonometricFunctions_cosine(th) ==
    IF IsInstanceQNumber(th)
    THEN QNumber_init(Times099(SinTwelfths((Twelfths(QNumber_to_float(th)) + 3) % 12)),
                      PyInt(th.fb))
    ELSE CosRadians(th)

\* The floats 1/math.sqrt(3) and math.sqrt(3)/2 to the five decimals that
\* decide their Q15 values, 18919 and 28378.
InvSqrt3Float == Ratio(57735, 100000)
Sqrt3Div2Float == Ratio(86603, 100000)

Clarke_forward(input) ==
    LET bc_sum == Plus(input.b, input.c)
        fb == PyInt(input.a.fb)
    IN  IF IsInstanceQNumber(input.a)
        THEN TwoPhase(
                 Mul(QNumber_init(Ratio(2, 3), fb),
                     Sub(input.a, Mul(QNumber_init(Ratio(1, 2), fb), bc_sum))),
                 Mul(QNumber_init(InvSqrt3Float, fb), Sub(input.b, input.c)))
        ELSE TwoPhase(
                 SurdMul(Surd(2, 0, 3),
                         SurdSub(input.a, SurdMul(Surd(1, 0, 2), bc_sum))),
                 SurdMul(Surd(0, 1, 3), SurdSub(input.b, input.c)))

Clarke_inverse(input) ==
    LET fb == PyInt(input.alpha.fb)
        alpha_half ==
            IF IsInstanceQNumber(input.alpha)
            THEN Mul(QNumber_init(Ratio(1, 2), fb), input.alpha)
            ELSE SurdMul(Surd(1, 0, 2), input.alpha)
        beta_sqrt3_half ==
            IF IsInstanceQNumber(input.alpha)
            THEN Mul(QNumber_init(Sqrt3Div2Float, fb), input.beta)
            ELSE SurdMul(Surd(0, 1, 2), input.beta)
    IN  ThreePhase(input.alpha,
                   Plus(Negated(alpha_half), beta_sqrt3_half),
                   Minus(Negated(alpha_half), beta_sqrt3_half))

Park_forward(input, th) ==
    LET cos_theta == TrigonometricFunctions_cosine(th)
        sin_theta == TrigonometricFunctions_sine(th)
        alpha_cos == Times(input.alpha, cos_theta)
        beta_sin == Times(input.beta, sin_theta)
        alpha_sin == Times(input.alpha, sin_theta)
        beta_cos == Times(input.beta, cos_theta)
    IN  RotatingFrame(Plus(alpha_cos, beta_sin), Plus(Negated(alpha_sin), beta_cos))

\* Mutant of Park_inverse: alpha is d*cos + q*sin.
Park_inverse_alpha_sum(input, th) ==
    LET cos_theta == TrigonometricFunctions_cosine(th)
        sin_theta == TrigonometricFunctions_sine(th)
        d_cos == Times(input.d, cos_theta)
        q_sin == Times(input.q, sin_theta)
        d_sin == Times(input.d, sin_theta)
        q_cos == Times(input.q, cos_theta)
    IN  TwoPhase(Plus(d_cos, q_sin), Plus(d_sin, q_cos))

Park_inverse(input, th) ==
    LET cos_theta == TrigonometricFunctions_cosine(th)
        sin_theta == TrigonometricFunctions_sine(th)
        d_cos == Times(input.d, cos_theta)
        q_sin == Times(input.q, sin_theta)
        d_sin == Times(input.d, sin_theta)
        q_cos == Times(input.q, cos_theta)
    IN  TwoPhase(Minus(d_cos, q_sin), Plus(d_sin, q_cos))

ClarkePark_forward(input, th) == Park_forward(Clarke_forward(input), th)
ClarkePark_inverse(input, th) == Clarke_inverse(Park_inverse(input, th))

\* forward(input_phases, theta), on the arguments held.
Forward ==
    /\ transform.frame = None
    /\ transform' = [transform EXCEPT
                        !.frame = ClarkePark_forward(transform.input_phases,
                                                     transform.theta)]
    /\ UNCHANGED <<pid_vars, calls, qnumber_vars, svm_vars, trig>>

\* inverse(frame, theta), on the frame forward returned.
Inverse ==
    /\ transform.frame # None
    /\ transform.output_phases = None
    /\ transform' = [transform EXCEPT
                        !.output_phases = ClarkePark_inverse(transform.frame,
                                                            transform.theta)]
    /\ UNCHANGED <<pid_vars, calls, qnumber_vars, svm_vars, trig>>

\* The phase values n/4, as QNumbers and as floats.
QPhases == {QNumber_init(Ratio(n, 4), PyInt(15)) : n \in -MaxPhase .. MaxPhase}
FloatPhases == {Lowest(Surd(n, 0, 4)) : n \in -MaxPhase .. MaxPhase}

\* The angles: whole quarter turns for a QNumber, 0.0 for a float.
QThetas == {QNumber_init(Ratio(n, 4), PyInt(15)) : n \in 0 .. 3}
FloatThetas == {Ratio(0, 1)}

\* The transforms keep no state: a run is a forward call and the inverse
\* call on its result, from any phases and angle of one numeric type.
ClarkeParkInit ==
    /\ PidNew /\ calls = 0 /\ QNumberIdle /\ SvmIdle
    /\ trig = None
    /\ \/ transform \in [input_phases : [a : QPhases, b : QPhases, c : QPhases],
                          theta : QThetas, frame : {None}, output_phases : {None}]
       \/ transform \in [input_phases : [a : FloatPhases, b : FloatPhases,
                                          c : FloatPhases],
                          theta : FloatThetas, frame : {None},
                          output_phases : {None}]

ClarkeParkNext ==
    \/ Forward
    \/ Inverse

ClarkeParkSpec == ClarkeParkInit /\ [][ClarkeParkNext]_vars

\* The angle conventions side by side: one angle, handed to
\* TrigonometricFunctions.sine and cosine (the functions Park calls) and to
\* the _sine and _cosine of a SpaceVectorModulation() built without
\* trig_functions.  trig holds the angle and what each call returned.

\* SpaceVectorModulation._sine(angle): float(angle) first, a TypeError on a
\* QNumber, which defines no __float__.
SpaceVectorModulation_sine(angle) ==
    IF IsInstanceQNumber(angle) THEN Raise("TypeError") ELSE Svm_sine(angle)

SpaceVectorModulation_cosine(angle) ==
    IF IsInstanceQNumber(angle) THEN Raise("TypeError") ELSE Svm_cosine(angle)

Sine ==
    /\ trig.sine = None
    /\ trig' = [trig EXCEPT !.sine = TrigonometricFunctions_sine(trig.angle)]
    /\ UNCHANGED <<pid_vars, calls, qnumber_vars, svm_vars, transform>>

Cosine ==
    /\ trig.cosine = None
    /\ trig' = [trig EXCEPT !.cosine = TrigonometricFunctions_cosine(trig.angle)]
    /\ UNCHANGED <<pid_vars, calls, qnumber_vars, svm_vars, transform>>

SvmSine ==
    /\ trig.svm_sine = None
    /\ trig' = [trig EXCEPT !.svm_sine = SpaceVectorModulation_sine(trig.angle)]
    /\ UNCHANGED <<pid_vars, calls, qnumber_vars, svm_vars, transform>>

SvmCosine ==
    /\ trig.svm_cosine = None
    /\ trig' = [trig EXCEPT
                   !.svm_cosine = SpaceVectorModulation_cosine(trig.angle)]
    /\ UNCHANGED <<pid_vars, calls, qnumber_vars, svm_vars, transform>>

\* The functions keep no state: a run is the four calls, in any order, on
\* one angle, a float or a QNumber.
TrigInit ==
    /\ PidNew /\ calls = 0 /\ QNumberIdle /\ SvmIdle
    /\ transform = None
    /\ trig \in [angle : SvmThetas \cup QThetas, sine : {None},
                 cosine : {None}, svm_sine : {None}, svm_cosine : {None}]

TrigNext ==
    \/ Sine
    \/ Cosine
    \/ SvmSine
    \/ SvmCosine

TrigSpec == TrigInit /\ [][TrigNext]_vars

----------------------------------------------------------------------------
(* Vocabulary of the properties.                                           *)

Zero == Float(0)
Zeros == <<Zero, Zero, Zero>>

\* x is a number of the type of the limits l, with l.min <= x <= l.max.
Within(x, l) ==
    /\ x.k = l.min.k
    /\ x.k \in {"float", "q"}
    /\ l.min.v <= x.v
    /\ x.v <= l.max.v

\* A set-point has been assigned.
Assigned == set_point.k # "none"

\* The controller is on the path on which process computes: auto mode,
\* and a set-point that Python takes as true (assigned, and not 0.0).
OnActivePath == auto_mode /\ Assigned /\ ~(set_point.k = "float" /\ set_point.v = 0)

\* clamp as the specification words it.
ClampTo(x, l) ==
    IF Truthy(Lt(x, l.min)) THEN l.min
    ELSE IF Truthy(Gt(x, l.max)) THEN l.max
    ELSE x

\* The i-th newest error of the active calls since construction or reset,
\* zero when there were fewer.
PastError(i) == IF i <= Len(active_errors) THEN active_errors[i] ELSE Zero

\* y[n-1] + (kp+ki+kd)*x0 + (-kp-2*kd)*x1 + kd*x2 over the tunings t.
Recurrence(y, t, x0, x1, x2) ==
    Add(Add(Add(y, Mul(Add(Add(t.kp, t.ki), t.kd), x0)),
            Mul(Sub(Neg(t.kp), Mul(Float(2), t.kd)), x1)),
        Mul(t.kd, x2))

----------------------------------------------------------------------------
(* The claims.                                                             *)

\* C1 (as claimed): every process call, the calls on the hold path
\* included, returns a value within [limits.min, limits.max] of the limits
\* in force at the call.
C1_ProcessWithinLimits ==
    (pc = "running" /\ op = "process") => Within(ret, limits)

\* C1 (amended): every process call on the active path returns a value
\* within [limits.min, limits.max] of the limits in force at the call,
\* unless the recurrence value is NaN, which clamp passes through.
C1_ActiveProcessWithinLimits ==
    (pc = "running" /\ op = "process" /\ OnActivePath /\ ret.k # "nan")
        => Within(ret, limits)

\* An active call whose recurrence value, above limits.max, was clamped:
\* from a zeroed history, A0 = 3 and an error of 1 add 3 to an output that
\* was -1 or more.
C1_Witness ==
    /\ pc = "running" /\ op = "process" /\ OnActivePath
    /\ active_errors = <<Float(1)>>
    /\ A0 = Float(3)
    /\ limits = [min |-> Float(-1), max |-> Float(1)]
    /\ ret = limits.max

\* C2: with a set-point assigned, whatever its value, and auto mode on,
\* process(feedback) pushes the error set_point - feedback into the
\* history and returns the clamped recurrence value, which it stores.
C2_AssignedSetPointIsActive ==
    [][\A m \in Feedbacks(T_of) :
          (Pid_process(m) /\ Assigned /\ auto_mode)
              => /\ error_history' =
                        <<Sub(set_point, m), error_history[1], error_history[2]>>
                 /\ ret' = ClampTo(Recurrence(prev_output, tunnings,
                                              Sub(set_point, m),
                                              error_history[1], error_history[2]),
                                   limits)
                 /\ prev_output' = ret']_vars

\* C3: a process call made with no set-point assigned or with auto mode
\* off returns the stored previous output and changes no field of the
\* controller.
C3_HoldLeavesStateUnchanged ==
    [][(pc = "running" /\ op' = "process" /\ (~Assigned \/ ~auto_mode))
          => /\ ret' = prev_output
             /\ pc' = pc
             /\ UNCHANGED pid_fields]_vars

\* A hold call of a disabled controller that has an output and a history.
C3_Witness ==
    /\ pc = "running" /\ op = "process" /\ ~auto_mode /\ Assigned
    /\ prev_output.v # 0
    /\ error_history[1].v # 0
    /\ ret = prev_output

\* C4: on the active path process(feedback) returns, and stores as the
\* previous output, clamp(y_prev + A0*x0 + A1*x1 + A2*x2), x0 the error
\* set_point - feedback, x1 and x2 the errors of the two preceding active
\* calls (zero if none since construction or reset), A0 = kp+ki+kd,
\* A1 = -kp-2*kd, A2 = kd.
C4_ActiveProcessRecurrence ==
    [][\A m \in Feedbacks(T_of) :
          (Pid_process(m) /\ OnActivePath)
              => /\ ret' = ClampTo(Recurrence(prev_output, tunnings,
                                              Sub(set_point, m),
                                              PastError(1), PastError(2)),
                                   limits)
                 /\ prev_output' = ret']_vars

\* An active call with two earlier errors, all three terms of the
\* recurrence in play, whose value lay strictly between the limits.
C4_Witness ==
    /\ pc = "running" /\ op = "process" /\ OnActivePath
    /\ Len(active_errors) = 3
    /\ active_errors[1].k = "float" /\ active_errors[1].v # 0
    /\ active_errors[2].k = "float" /\ active_errors[2].v # 0
    /\ active_errors[3].k = "float" /\ active_errors[3].v # 0
    /\ tunnings.kp = Float(1) /\ tunnings.kd = Float(1)
    /\ ret.k = "float"
    /\ limits.min.v < ret.v /\ ret.v < limits.max.v

\* C5: a Pid constructed with QNumber tunings and limits of one format
\* runs: no call raises TypeError, and process returns a QNumber of that
\* format.
C5_QNumberPidRuns ==
    (pc # "new" /\ IsQNumber(limits.min))
        => /\ pc # "TypeError"
           /\ (op = "process" => (IsQNumber(ret) /\ ret.fb = limits.min.fb))

\* min < max, both of one numeric type.
LimitsValid(l) ==
    /\ l.min.k = l.max.k
    /\ l.min.k \in {"float", "q"}
    /\ l.min.v < l.max.v

\* C6: no call follows an exit; every call that leaves the controller
\* running leaves it with limits.min < limits.max (the controller does not
\* run before its construction, so it never runs with other limits); a
\* construction or a set_limits call with limits.min >= limits.max exits,
\* that is, no call that does not exit is one with such limits; and an
\* exit stores nothing.
C6_LimitsAlwaysValid ==
    [][/\ pc # "SystemExit"
       /\ pc' = "running" => LimitsValid(limits')
       /\ pc' = "SystemExit" => UNCHANGED pid_fields
       /\ (pc = "new" /\ pc' # "SystemExit") =>
            \A T \in NumericTypes : \A tn \in PidTunings(T) :
              \A lm \in PidLimits(T) : \A am \in BOOLEAN :
                ~LimitsValid(lm) => ~Pid_init(tn, lm, am)
       /\ (pc = "running" /\ op' = "set_limits" /\ pc' # "SystemExit") =>
            \A lm \in PidLimits(T_of) :
                ~LimitsValid(lm) => ~Pid_set_limits(lm)]_vars

\* set_limits with invalid limits has exited, the valid limits still stored.
C6_Witness ==
    /\ pc = "SystemExit" /\ op = "set_limits"
    /\ LimitsValid(limits)
    /\ prev_output.k = "float" /\ prev_output.v # 0

\* C7: reset() sets the previous output and the three history slots to
\* zero and leaves the set-point, the limits, the tunings, the
\* coefficients and the mode flag unchanged.
C7_ResetZeroesOutputAndHistory ==
    [][(pc = "running" /\ op' = "reset")
          => /\ prev_output' = Zero
             /\ error_history' = Zeros
             /\ pc' = pc
             /\ UNCHANGED <<set_point, limits, tunnings, A0, A1, A2, auto_mode>>]_vars

\* reset() has run on a controller with a set-point, in manual mode.
C7_Witness ==
    /\ pc = "running" /\ op = "reset"
    /\ Assigned /\ set_point.v # 0 /\ ~auto_mode
    /\ A1.v # 0
    /\ prev_output = Zero /\ error_history = Zeros

\* C8: as long as set_point has not been called, the previous output is
\* zero and every process call returns zero, after reset() as before it.
C8_ZeroUntilSetPoint ==
    (pc = "running" /\ ~Assigned)
        => /\ prev_output = Zero
           /\ (op = "process" => ret = Zero)

\* process has returned zero, with no set-point, under limits that
\* exclude zero.
C8_Witness ==
    /\ pc = "running" /\ op = "process" /\ ~Assigned /\ auto_mode
    /\ limits.min.v > 0
    /\ ret = Zero

\* C9: enable() in manual mode zeroes the previous output and the history
\* and turns auto mode on, and changes nothing else; enable() in auto mode
\* changes nothing; the first active process call on the zeroed state
\* returns clamp(A0*x0).
C9_EnableResetsFromManual ==
    /\ [][(pc = "running" /\ op' = "enable")
            => /\ pc' = pc
               /\ IF auto_mode
                  THEN UNCHANGED pid_fields
                  ELSE /\ prev_output' = Zero
                       /\ error_history' = Zeros
                       /\ auto_mode' = TRUE
                       /\ UNCHANGED <<set_point, limits, tunnings, A0, A1, A2>>]_vars
    /\ [][\A m \in Feedbacks(T_of) :
            (Pid_process(m) /\ OnActivePath /\ active_errors = <<>>)
                => ret' = ClampTo(Mul(Add(Add(tunnings.kp, tunnings.ki), tunnings.kd),
                                      Sub(set_point, m)),
                                  limits)]_vars

\* enable() has run and left a zeroed controller in auto mode, ready for
\* an active call.
C9_Witness ==
    /\ pc = "running" /\ op = "enable"
    /\ auto_mode /\ OnActivePath
    /\ A0.v # 0
    /\ active_errors = <<>>
    /\ prev_output = Zero /\ error_history = Zeros

\* C10: set_point, set_limits, set_tunnings and disable leave the previous
\* output and the history unchanged; only reset, enable in manual mode and
\* an active process call change them; in manual mode process returns the
\* previous output and keeps it.
C10_OutputAndHistoryFrame ==
    /\ [][(pc = "running"
           /\ op' \in {"set_point", "set_limits", "set_tunnings", "disable"})
            => UNCHANGED <<prev_output, error_history>>]_vars
    /\ [][(pc = "running"
           /\ <<prev_output, error_history>>' # <<prev_output, error_history>>)
            => \/ op' = "reset"
               \/ op' = "enable" /\ ~auto_mode
               \/ op' = "process" /\ auto_mode /\ Assigned]_vars
    /\ [][(pc = "running" /\ op' = "process" /\ ~auto_mode)
            => (ret' = prev_output /\ prev_output' = prev_output)]_vars

\* disable() has run on a controller that holds an output and two errors.
C10_Witness ==
    /\ pc = "running" /\ op = "disable" /\ ~auto_mode
    /\ prev_output.k = "float" /\ prev_output.v # 0
    /\ error_history[1].k = "float" /\ error_history[1].v # 0
    /\ error_history[2].k = "float" /\ error_history[2].v # 0

\* C11: set_tunnings(t) at once sets A0 = t.kp + t.ki + t.kd,
\* A1 = -t.kp - 2*t.kd and A2 = t.kd and leaves the previous output and the
\* error history as they were, so that the next active process call
\* evaluates the recurrence with the new coefficients over the errors
\* recorded under the old tunings.
C11_SetTunningsRecomputesOnly ==
    [][/\ (pc = "running" /\ op' = "set_tunnings")
          => \A t \in PidTunings(T_of) :
                Pid_set_tunnings(t)
                    => /\ A0' = Add(Add(t.kp, t.ki), t.kd)
                       /\ A1' = Sub(Neg(t.kp), Mul(Float(2), t.kd))
                       /\ A2' = t.kd
                       /\ UNCHANGED <<prev_output, error_history, active_errors>>
       /\ (pc = "running" /\ op = "set_tunnings" /\ op' = "process"
           /\ OnActivePath)
          => \A m \in Feedbacks(T_of) :
                Pid_process(m)
                    => ret' = ClampTo(Add(Add(Add(prev_output,
                                                  Mul(A0, Sub(set_point, m))),
                                              Mul(A1, PastError(1))),
                                          Mul(A2, PastError(2))),
                                      limits)]_vars

\* set_tunnings has just put all three gains to 1 on a controller that
\* holds a non-zero output and two non-zero errors from earlier active
\* calls.
C11_Witness ==
    /\ pc = "running" /\ op = "set_tunnings"
    /\ tunnings = [kp |-> Float(1), ki |-> Float(1), kd |-> Float(1)]
    /\ A0 = Float(3) /\ A1 = Float(-3) /\ A2 = Float(1)
    /\ Len(active_errors) >= 2
    /\ active_errors[1].v # 0 /\ active_errors[2].v # 0
    /\ error_history[1] = active_errors[1]
    /\ error_history[2] = active_errors[2]
    /\ prev_output.v # 0

\* The distance of an output, in twentieths, from the set-point.
FromSetPoint(y) ==
    IF y.v >= 20 * ScenarioSetPoint.v THEN y.v - 20 * ScenarioSetPoint.v
    ELSE 20 * ScenarioSetPoint.v - y.v

\* C12 (as claimed): in the open-loop run the outputs of the successive
\* process(20) calls form a monotonic sequence that approaches 60 - from
\* one call to the next the output moves towards the set-point and never
\* past it or away from it - and every output lies within [-100, 100].
C12_MonotonicApproach ==
    [][(op = "process" /\ op' = "process")
          => /\ FromSetPoint(ret') <= FromSetPoint(ret)
             /\ (ret.v <= 20 * ScenarioSetPoint.v) = (ret'.v <= 20 * ScenarioSetPoint.v)
             /\ Within(ret', limits)]_vars

\* The n-th output of the open-loop run, in twentieths: 58, then 48, then
\* 4 more with every call up to the limit 100.
ScenarioOutput(n) ==
    IF n = 1 THEN 1160
    ELSE IF 960 + 80 * (n - 2) > 2000 THEN 2000
    ELSE 960 + 80 * (n - 2)

\* C12 (amended): the outputs of the open-loop run are 58, 48 and from
\* there 4 more with each call (52, 56, 60, 64, ...) until the upper limit
\* 100 is reached, where they stay; every output lies within [-100, 100].
C12_WindsUpToLimit ==
    (op = "process")
        => /\ pc = "running"
           /\ ret = Float(ScenarioOutput(calls))
           /\ Within(ret, limits)

\* The last call of the run has returned, the output at the upper limit.
C12_Witness ==
    /\ op = "process" /\ calls = ScenarioCalls
    /\ set_point = ScenarioSetPoint
    /\ error_history = <<Float(40), Float(40), Float(40)>>
    /\ ret = limits.max

----------------------------------------------------------------------------
(* The claims about QNumber.                                               *)

\* -2^fb <= raw <= 2^fb - 1 for the QNumber x, as a test on raw \div 2^(fb-1)
\* (2^31 itself is no 32-bit integer).
InFormatRange(x) == (x.v \div Pow2(x.fb - 1)) \in -2 .. 1

\* The raw value n lies in the signed range of a format of 15 bits.
InRange15(n) == -Pow2(15) <= n /\ n <= Pow2(15) - 1

Arithmetic == {"__add__", "__sub__", "__mul__", "__truediv__", "__neg__"}

\* Both operands of the last call are QNumbers of 15 bits.
BothQ15 == IsQNumber(qself) /\ qself.fb = 15 /\ IsQNumber(qother) /\ qother.fb = 15

\* C13 (as claimed): every QNumber constructed from a float in [-1.0, 1.0)
\* or returned by add, subtract, multiply, divide or negate on such numbers
\* has -2^fractional_bits <= raw <= 2^fractional_bits - 1.
C13_RawWithinFormat ==
    (IsQNumber(qret) /\ qop \in Arithmetic \cup {"__init__"})
        => InFormatRange(qret)

\* C14 (as claimed): adding two Q15 numbers whose exact sum is 1.0 or more
\* (raw sum 2^15 or more) raises OverflowError, 0.5 + 0.5 and
\* 0.999 + 0.999 among them.
C14_SumOfOneOverflows ==
    (qop = "__add__" /\ BothQ15 /\ qself.v + qother.v >= Pow2(15))
        => qret = Raise("OverflowError")

\* C15: add, subtract, multiply, divide, <, <=, > and >= on a Q15 and a
\* Q31 operand, in either order and whatever their values, raise the
\* ValueError of the format check and return nothing; the format check
\* comes before the zero test of the division.
C15_FormatMismatchFirst ==
    (/\ qop \in {"__add__", "__sub__", "__mul__", "__truediv__",
                 "__lt__", "__le__", "__gt__", "__ge__"}
     /\ IsQNumber(qother)
     /\ qself.fb # qother.fb)
        => /\ qret = Raise("ValueError")
           /\ qmsg = "Cannot operate on QNumbers with different formats"

\* A Q15 number other than zero was divided by the Q31 zero: the call
\* raised the ValueError.
C15_Witness ==
    /\ qop = "__truediv__"
    /\ qself.fb = 15 /\ qself.v # 0
    /\ qother = QNumber_from_raw(0, 31)
    /\ qret = Raise("ValueError")

\* C16 (as claimed): negating the QNumber with raw = -2^fractional_bits
\* (-1.0) raises OverflowError; negating any other QNumber returns the
\* QNumber of the same format with the negated raw value.
C16_NegateMinimumOverflows ==
    (qop = "__neg__")
        => qret = IF qself.v = -Pow2(qself.fb) THEN Raise("OverflowError")
                  ELSE QNumber_from_raw(-qself.v, qself.fb)

\* C17 (as claimed): a / b of one format raises ZeroDivisionError when
\* b.raw = 0; otherwise the quotient q of a.raw * 2^fractional_bits by
\* b.raw is returned when -2^fractional_bits <= q <= 2^fractional_bits - 1
\* and OverflowError is raised when it is not, as for a / a.
C17_DivideChecksFormatRange ==
    (qop = "__truediv__" /\ BothQ15)
        => qret = IF qother.v = 0 THEN Raise("ZeroDivisionError")
                  ELSE IF InRange15((qself.v * Pow2(15)) \div qother.v)
                  THEN QNumber_from_raw((qself.v * Pow2(15)) \div qother.v, 15)
                  ELSE Raise("OverflowError")

\* C18 (as claimed): x == y is True exactly when x and y have the same
\* fractional_bits and the same raw value and is False otherwise, also
\* when the formats differ.
C18_EqualityIsTotal ==
    (qop = "__eq__" /\ IsQNumber(qother))
        => qret = Bool(qself.fb = qother.fb /\ qself.v = qother.v)

\* The fractional_bits passed is the number 15 or the number 31.
BitsAre15Or31 == qbits.k \in {"int", "float"} /\ qbits.v \in {15, 31}

\* The float passed is below -1.0, or 1.0 or above.
ValueOutside == qvalue # RatioNaN /\ (qvalue.num < -qvalue.den \/ qvalue.num >= qvalue.den)

\* C19: QNumber(value, fractional_bits) raises ValueError for every
\* fractional_bits other than 15 or 31, and this before it looks at the
\* value; with 15 or 31 it raises the ValueError of the range check for
\* every value < -1.0 or >= 1.0; a construction that raised yields no
\* QNumber.
C19_ConstructionRejects ==
    (qop = "__init__")
        => /\ ~BitsAre15Or31
                => /\ qret = Raise("ValueError")
                   /\ qmsg = "fractional_bits must be either 15 or 31"
           /\ (qbits \in {PyInt(15), PyInt(31)} /\ ValueOutside)
                => /\ qret = Raise("ValueError")
                   /\ qmsg = "Value out of range [-1.0, 1.0)"
           /\ qmsg # "" => ~IsQNumber(qret)

\* QNumber(1.25, 16), wrong in both arguments, was refused for its
\* fractional_bits.
C19_Witness ==
    /\ qop = "__init__"
    /\ qvalue = Ratio(5, 4) /\ qbits = PyInt(16)
    /\ qret = Raise("ValueError")
    /\ qmsg = "fractional_bits must be either 15 or 31"

----------------------------------------------------------------------------
(* The claims about the space vector modulation.                           *)

\* v_alpha*0.5 - v_beta*(sqrt(3)/2) and -v_alpha*0.5 - v_beta*(sqrt(3)/2)
\* of the last call.
VRef60 == SurdSub(SurdMul(v_alpha, Surd(1, 0, 2)), SurdMul(v_beta, Surd(0, 1, 2)))
VRef120 ==
    SurdSub(SurdMul(SurdNeg(v_alpha), Surd(1, 0, 2)), SurdMul(v_beta, Surd(0, 1, 2)))

\* C20: _calculate_switching_times returns the pattern of the sector of
\* the first test that holds, in the order v_ref_60 >= 0 -> [60,120),
\* v_ref_120 >= 0 -> [120,180), -v_alpha >= 0 -> [180,240),
\* -v_ref_60 >= 0 -> [240,300), -v_ref_120 >= 0 -> [300,360), none ->
\* [0,60); an expression that is exactly 0 passes its test, so a value on
\* a boundary goes to the earlier-listed sector.
C20_FirstTestDecidesSector ==
    (sector # "none")
        => /\ sector =
                 IF SurdNonNegative(VRef60) THEN "60_to_120"
                 ELSE IF SurdNonNegative(VRef120) THEN "120_to_180"
                 ELSE IF SurdNonNegative(SurdNeg(v_alpha)) THEN "180_to_240"
                 ELSE IF SurdNonNegative(SurdNeg(VRef60)) THEN "240_to_300"
                 ELSE IF SurdNonNegative(SurdNeg(VRef120)) THEN "300_to_360"
                 ELSE "0_to_60"
           /\ pattern = Svm_sector_pattern(sector, v_alpha, v_beta)
           /\ (VRef60 = Svm_zero) => sector = "60_to_120"
           /\ (VRef120 = Svm_zero /\ ~SurdNonNegative(VRef60))
                => sector = "120_to_180"
           /\ (v_alpha = Svm_zero /\ ~SurdNonNegative(VRef60)
               /\ ~SurdNonNegative(VRef120))
                => sector = "180_to_240"

\* The voltage (-sqrt(3)/2, 1/2) lies on the second boundary, v_ref_120 =
\* 0, with the third test true as well and the first false: the call
\* returned from the [120,180) function.
C20_Witness ==
    /\ v_alpha = Surd(0, -1, 2) /\ v_beta = Surd(1, 0, 2)
    /\ VRef120 = Svm_zero
    /\ ~SurdNonNegative(VRef60)
    /\ SurdNonNegative(SurdNeg(v_alpha))
    /\ sector = "120_to_180"

\* C21: generate(RotatingFrame(d=0.8, q=0), theta=0), that is v_alpha = 0.8
\* and v_beta = 0, returns from the [0,60) degree sector calculation.
C21_ZeroAngleSelectsFirstSector ==
    (/\ duty_cycles # None
     /\ dq_voltage = [d |-> Surd(4, 0, 5), q |-> Svm_zero]
     /\ scaled_theta = Ratio(0, 12))
        => /\ v_alpha = Surd(4, 0, 5)
           /\ v_beta = Svm_zero
           /\ sector = "0_to_60"

\* a + b + c of a pattern.
SumOf(p) == SurdAdd(SurdAdd(p.a, p.b), p.c)

\* x lies in [lo, hi].
SurdWithin(x, lo, hi) == ~SurdLt(x, lo) /\ ~SurdGt(x, hi)

\* generate has returned, from arguments d, q in [-1,1] and theta in [0,1).
GeneratedFromValid ==
    /\ duty_cycles # None
    /\ SurdWithin(dq_voltage.d, SurdNeg(Svm_one), Svm_one)
    /\ SurdWithin(dq_voltage.q, SurdNeg(Svm_one), Svm_one)
    /\ 0 <= scaled_theta.num /\ scaled_theta.num < scaled_theta.den

\* The pattern _calculate_switching_times returns for the zero voltage.
ZeroVoltagePattern ==
    Svm_sector_pattern(Svm_sector(Svm_zero, Svm_zero), Svm_zero, Svm_zero)

\* C22: for every valid input the sum a + b + c of the pattern that
\* _add_common_mode_injection returned is one and the same constant,
\* whatever the input and the sector: the sum it has for the zero voltage.
C22_InjectedSumIsConstant ==
    GeneratedFromValid => SumOf(pattern) = SumOf(ZeroVoltagePattern)

\* What generate returns for the pattern value x: the clamped duty cycle.
ClampedDuty(x, duty) ==
    /\ SurdWithin(duty, Svm_zero, Svm_one)
    /\ SurdLt(x, Svm_zero) => duty = Svm_zero
    /\ SurdGt(x, Svm_one) => duty = Svm_one
    /\ SurdWithin(x, Svm_zero, Svm_one) => duty = SurdDiv(x, Svm_output_scale)

\* C23: for d, q in [-1,1] and theta in [0,1) each of the three duty
\* cycles generate returns lies in [0,1]: it is 0 for a pattern value
\* below zero, unity for one above unity, and the pattern value divided by
\* the output scale otherwise.
C23_DutyCyclesClamped ==
    GeneratedFromValid
        => /\ ClampedDuty(pattern.a, duty_cycles.a)
           /\ ClampedDuty(pattern.b, duty_cycles.b)
           /\ ClampedDuty(pattern.c, duty_cycles.c)

\* generate(RotatingFrame(-1, -1), 0): the pattern is about (1.29, -0.29,
\* 0.87), one value above unity, one below zero and one between, and the
\* duty cycles are (1, 0, sqrt(3)/2).
C23_Witness ==
    /\ GeneratedFromValid
    /\ dq_voltage = [d |-> Surd(-1, 0, 1), q |-> Surd(-1, 0, 1)]
    /\ scaled_theta = Ratio(0, 12)
    /\ SurdGt(pattern.a, Svm_one)
    /\ SurdLt(pattern.b, Svm_zero)
    /\ pattern.c = Surd(0, 1, 2)
    /\ duty_cycles = SvmOutput(Svm_one, Svm_zero, Surd(0, 1, 2))

\* The sector functions by the sixth of a turn they are named after.
SectorNames ==
    <<"0_to_60", "60_to_120", "120_to_180", "180_to_240", "240_to_300", "300_to_360">>

\* generate has returned for a vector of magnitude d > 0 whose angle is a
\* whole number of sixths of a turn: (v_alpha, v_beta) lies on the boundary
\* between two sectors.
OnSectorBoundary ==
    /\ GeneratedFromValid
    /\ dq_voltage.q = Svm_zero
    /\ SurdGt(dq_voltage.d, Svm_zero)
    /\ Twelfths(scaled_theta) % 2 = 0

\* The sectors on the two sides of the boundary at k sixths of a turn.
SectorBelow(k) == SectorNames[((k + 5) % 6) + 1]
SectorAbove(k) == SectorNames[k + 1]

\* C24: at each of the six sector boundaries (0, 60, ..., 300 degrees) the
\* duty cycles of the sector calculation on one side equal those of the
\* calculation on the other side (the float arithmetic has no quantization).
C24_ContinuousAcrossBoundaries ==
    OnSectorBoundary
        => LET k == Twelfths(scaled_theta) \div 2
           IN  DutyOf(Svm_sector_pattern(SectorBelow(k), v_alpha, v_beta))
                   = DutyOf(Svm_sector_pattern(SectorAbove(k), v_alpha, v_beta))

\* Half of the zero-vector time of the pattern passed to the injection.
CommonMode ==
    SurdMul(SurdSub(Svm_one, SumOf(injected)), Svm_half)

\* C28: the common-mode injection adds the same amount, half of t0 =
\* 1 - a - b - c of the sector pattern, to each of the three slots, so the
\* pairwise differences a - b, b - c and c - a of the pattern are unchanged.
C28_InjectionKeepsDifferences ==
    (sector # "none")
        => /\ pattern.a = SurdAdd(injected.a, CommonMode)
           /\ pattern.b = SurdAdd(injected.b, CommonMode)
           /\ pattern.c = SurdAdd(injected.c, CommonMode)
           /\ SurdSub(pattern.a, pattern.b) = SurdSub(injected.a, injected.b)
           /\ SurdSub(pattern.b, pattern.c) = SurdSub(injected.b, injected.c)
           /\ SurdSub(pattern.c, pattern.a) = SurdSub(injected.c, injected.a)

\* _calculate_switching_times(-1/2, 0): the [120,180) function passes
\* (0, 1, 1/2), t0 is -1/2, and the pattern returned is (-1/4, 3/4, 1/4).
C28_Witness ==
    /\ v_alpha = Surd(-1, 0, 2) /\ v_beta = Svm_zero
    /\ sector = "120_to_180"
    /\ injected = SvmOutput(Svm_zero, Svm_one, Surd(1, 0, 2))
    /\ CommonMode = Surd(-1, 0, 4)
    /\ pattern = SvmOutput(Surd(-1, 0, 4), Surd(3, 0, 4), Surd(1, 0, 4))

\* The first three tests of _calculate_switching_times fail.
FirstThreeFail ==
    /\ ~SurdNonNegative(VRef60)
    /\ ~SurdNonNegative(VRef120)
    /\ ~SurdNonNegative(SurdNeg(v_alpha))

\* C29: _calculate_switching_times dispatches to one of the first four
\* sector calculations only: when the first three tests fail the fourth,
\* -v_ref_60 >= 0, holds, the first, v_ref_60 >= 0, having failed; the
\* [300,360) and [0,60) calculations are never executed.
C29_FirstFourSectorsOnly ==
    (sector # "none")
        => /\ sector \in {"60_to_120", "120_to_180", "180_to_240", "240_to_300"}
           /\ FirstThreeFail
                => /\ SurdNonNegative(SurdNeg(VRef60))
                   /\ sector = "240_to_300"
                   /\ pattern = Svm_calculate_240_to_300_degrees(v_alpha, v_beta)

\* _calculate_switching_times(1/2, sqrt(3)/2), the vector at 60 degrees:
\* v_ref_60 = -1/2, v_ref_120 = -1 and -v_alpha = -1/2 fail their tests and
\* the call returns from the [240,300) function.
C29_Witness ==
    /\ v_alpha = Surd(1, 0, 2) /\ v_beta = Surd(0, 1, 2)
    /\ FirstThreeFail
    /\ VRef60 = Surd(-1, 0, 2)
    /\ sector = "240_to_300"

\* The constructor has built the error history.
HistoryBuilt == error_history # <<None, None, None>>

\* C27: the error history has exactly three slots, newest first: after k
\* active process calls since construction or the last reset, slot i
\* (0, 1, 2) holds the error of the (i+1)-th most recent active call if
\* i < k and zero otherwise; an active call shifts the two newest errors
\* one slot older and discards the oldest.
C27_HistoryNewestFirst ==
    [][/\ HistoryBuilt'
          => /\ Len(error_history') = 3
             /\ \A i \in 1 .. 3 : error_history'[i] = PastError(i)'
       /\ \A m \in Feedbacks(T_of) :
            (Pid_process(m) /\ OnActivePath /\ ~IsRaised(Sub(set_point, m)))
                => /\ error_history'[1] = Sub(set_point, m)
                   /\ error_history'[2] = error_history[1]
                   /\ error_history'[3] = error_history[2]]_vars

\* Three active calls or more, the last with errors 1, 0, 1 newest first.
C27_Witness ==
    /\ op = "process" /\ OnActivePath
    /\ active_errors = <<Float(1), Float(0), Float(1)>>
    /\ error_history = <<Float(1), Float(0), Float(1)>>

\* A0*x[n] + A1*x[n-1] + A2*x[n-2] of an active process(m) call.
Increment(m) ==
    Add(Add(Mul(A0, Sub(set_point, m)), Mul(A1, error_history[1])),
        Mul(A2, error_history[2]))

BalancedRoundTrip ==
    /\ transform # None
    /\ transform.output_phases # None
    /\ LET i == transform.input_phases
       IN  IF IsInstanceQNumber(i.a) THEN i.a.v + i.b.v + i.c.v = 0
           ELSE SurdAdd(SurdAdd(i.a, i.b), i.c) = Surd(0, 0, 1)

\* y returns x: a float exactly (the model's float arithmetic is exact), a
\* QNumber to a few units of 2^-fractional_bits, taken as 8.
Returns(x, y) ==
    IF IsInstanceQNumber(x)
    THEN IsInstanceQNumber(y) /\ y.fb = x.fb /\ Abs(y.v - x.v) <= 8
    ELSE y = x

\* C25 (as claimed): for balanced three-phase input, ClarkePark.inverse(
\* ClarkePark.forward(abc, theta), theta) returns abc: exactly for float,
\* and for QNumber with an error of a few LSB at most.
C25_RoundTripReturnsInput ==
    BalancedRoundTrip
        => /\ Returns(transform.input_phases.a, transform.output_phases.a)
           /\ Returns(transform.input_phases.b, transform.output_phases.b)
           /\ Returns(transform.input_phases.c, transform.output_phases.c)

\* y returns x attenuated: a float exactly x, a QNumber 0.99*0.99 = 0.9801
\* times x to a few units of 2^-fractional_bits, taken as 8.
ReturnsAttenuated(x, y) ==
    IF IsInstanceQNumber(x)
    THEN /\ IsInstanceQNumber(y)
         /\ y.fb = x.fb
         /\ Abs(10000 * y.v - 9801 * x.v) <= 8 * 10000
    ELSE y = x

\* C25 (amended): for balanced three-phase input the round trip returns
\* abc exactly for float, and for QNumber abc attenuated by 0.99^2 = 0.9801,
\* the sine and cosine of a QNumber being scaled by 0.99: every phase comes
\* back within a few LSB of 0.9801 times its value.
C25_RoundTripAttenuated ==
    BalancedRoundTrip
        => /\ ReturnsAttenuated(transform.input_phases.a, transform.output_phases.a)
           /\ ReturnsAttenuated(transform.input_phases.b, transform.output_phases.b)
           /\ ReturnsAttenuated(transform.input_phases.c, transform.output_phases.c)

\* The Q15 phases (0.5, 0, -0.5) at a quarter turn: forward returns d of raw
\* 9364 and q of raw -16219, inverse the raw phases (16057, 0, -16056) for
\* (16384, 0, -16384).
C25_Witness ==
    /\ BalancedRoundTrip
    /\ transform.theta = QNumber_from_raw(8192, 15)
    /\ transform.input_phases.a = QNumber_from_raw(16384, 15)
    /\ transform.input_phases.b = QNumber_from_raw(0, 15)
    /\ transform.input_phases.c = QNumber_from_raw(-16384, 15)
    /\ transform.frame = RotatingFrame(QNumber_from_raw(9364, 15),
                                       QNumber_from_raw(-16219, 15))
    /\ transform.output_phases = ThreePhase(QNumber_from_raw(16057, 15),
                                            QNumber_from_raw(0, 15),
                                            QNumber_from_raw(-16056, 15))

\* What the sine and cosine of 2*pi*angle are, for the angles drawn: the
\* exact value for a float, the QNumber of 0.99 times it for a QNumber.
NormalizedSine(angle) ==
    IF IsInstanceQNumber(angle)
    THEN QNumber_init(Times099(SinTwelfths(Twelfths(QNumber_to_float(angle)))),
                      PyInt(angle.fb))
    ELSE SinTwelfths(Twelfths(angle))

NormalizedCosine(angle) ==
    IF IsInstanceQNumber(angle)
    THEN QNumber_init(Times099(SinTwelfths((Twelfths(QNumber_to_float(angle)) + 3) % 12)),
                      PyInt(angle.fb))
    ELSE SinTwelfths((Twelfths(angle) + 3) % 12)

\* C26: the angle is always a normalized angle in [0,1) standing for
\* [0, 2*pi): on the float path and on the QNumber path the sine and cosine
\* Park uses are those of 2*pi*theta, and on a float angle Park's functions
\* and the space vector modulation's return the same values.
C26_SameAngleConvention ==
    /\ trig.sine # None => trig.sine = NormalizedSine(trig.angle)
    /\ trig.cosine # None => trig.cosine = NormalizedCosine(trig.angle)
    /\ (~IsInstanceQNumber(trig.angle) /\ trig.sine # None /\ trig.svm_sine # None)
           => trig.sine = trig.svm_sine
    /\ (~IsInstanceQNumber(trig.angle) /\ trig.cosine # None
            /\ trig.svm_cosine # None)
           => trig.cosine = trig.svm_cosine

====
